---------------------------- MODULE Spec2Model ----------------------------
(***************************************************************************)
(* Model of the Telegram relay bot of src/main.py: the per-user session   *)
(* cache USER_MEMORY, the SQLite table "memory", the completion client     *)
(* fetch_ai_response and the message handler chat.                         *)
(*                                                                         *)
(* Text is a sequence of one-character strings.  A character outside      *)
(* ASCII is written by its code point ("U+2019"), still one element.      *)
(***************************************************************************)
EXTENDS Integers, Sequences, FiniteSets, TLC

(***************************************************************************)
(* Bounds of the model.                                                    *)
(***************************************************************************)
MaxMessages == 2
InitExchanges == 24

(***************************************************************************)
(* Program constants and fixed strings.                                    *)
(***************************************************************************)
HistoryCap == 50

FALLBACK_ERROR ==
    <<"U", "h", "-", "o", "h", ",", " ", "I", " ", "m", "e", "s", "s", "e", "d", " ", "u", "p", ".", " ", "T", "r", "y", " ", "a", "g", "a", "i", "n", "!">>

FALLBACK_FORMAT ==
    <<"H", "u", "h", "?", " ", "T", "h", "a", "t", " ", "d", "i", "d", "n", "U+2019", "t", " ", "m", "a", "k", "e", " ", "s", "e", "n", "s", "e", ".">>

FOLLOW_UP_PROMPT ==
    <<"O", "h", "!", " ", "W", "h", "a", "t", " ", "a", "r", "e", " ", "t", "h", "e", " ", "m", "i", "s", "s", "i", "n", "g", " ", "v", "a", "l", "u", "e", "s", "?", " ", "L", "e", "t", " ", "m", "e", " ", "k", "n", "o", "w", "!", " ", "U+1F603">>

BOT_PREFIX ==
    <<"B", "o", "t", ":", " ">>

(***************************************************************************)
(* Optional text: Python's None or a str.                                  *)
(***************************************************************************)
None == [isNone |-> TRUE, s |-> <<>>]

Some(t) == [isNone |-> FALSE, s |-> t]

\* Python truthiness of an Optional[str]: None and "" are falsy.
Truthy(p) == (~p.isNone) /\ Len(p.s) > 0

(***************************************************************************)
(* Text helpers.                                                           *)
(***************************************************************************)
Whitespace == {" ", "\t", "\n", "\r"}

Letters ==
    {"a", "b", "c", "d", "e", "f", "g", "h", "i", "j", "k", "l", "m",
     "n", "o", "p", "q", "r", "s", "t", "u", "v", "w", "x", "y", "z",
     "A", "B", "C", "D", "E", "F", "G", "H", "I", "J", "K", "L", "M",
     "N", "O", "P", "Q", "R", "S", "T", "U", "V", "W", "X", "Y", "Z"}

Operators == {"+", "-", "*", "/"}

RECURSIVE lstrip(_)
lstrip(t) ==
    IF t # <<>> /\ Head(t) \in Whitespace THEN lstrip(Tail(t)) ELSE t

RECURSIVE rstrip(_)
rstrip(t) ==
    IF t # <<>> /\ t[Len(t)] \in Whitespace
    THEN rstrip(SubSeq(t, 1, Len(t) - 1))
    ELSE t

\* str.strip()
strip(t) == rstrip(lstrip(t))

\* re.search(r"[\+\-\*/]", t)
HasOperator(t) == \E i \in 1..Len(t) : t[i] \in Operators

\* re.search(r"[a-zA-Z]+", t)
HasAlpha(t) == \E i \in 1..Len(t) : t[i] \in Letters

\* seq[-n:]
LastN(q, n) ==
    IF Len(q) <= n THEN q ELSE SubSeq(q, Len(q) - n + 1, Len(q))

(***************************************************************************)
(* json.dumps / json.loads on the two shapes the program stores: a list   *)
(* of strings (history) and the empty object (facts).                      *)
(***************************************************************************)
\* json_escape, were the quotation mark written unescaped.
json_escape_quote_unescaped(c) ==
    CASE c = "\\" -> <<"\\", "\\">>
      [] c = "U+2019" -> <<"\\", "u", "2", "0", "1", "9">>
      [] OTHER -> <<c>>

\* json.dumps escapes (ensure_ascii=True) of one character.
json_escape(c) ==
    CASE c = "\"" -> <<"\\", "\"">>
      [] c = "\\" -> <<"\\", "\\">>
      [] c = "\n" -> <<"\\", "n">>
      [] c = "\r" -> <<"\\", "r">>
      [] c = "\t" -> <<"\\", "t">>
      [] c = "U+2019" -> <<"\\", "u", "2", "0", "1", "9">>
      [] c = "U+1F603" ->
            <<"\\", "u", "d", "8", "3", "d", "\\", "u", "d", "e", "0", "3">>
      [] OTHER -> <<c>>

\* The escaped characters of t[lo..hi].
RECURSIVE json_dumps_str_body(_, _, _)
json_dumps_str_body(t, lo, hi) ==
    IF lo > hi THEN <<>>
    ELSE IF lo = hi THEN json_escape(t[lo])
    ELSE LET mid == (lo + hi) \div 2
         IN  json_dumps_str_body(t, lo, mid) \o json_dumps_str_body(t, mid + 1, hi)

json_dumps_str(t) == <<"\"">> \o json_dumps_str_body(t, 1, Len(t)) \o <<"\"">>

\* The items h[lo..hi], joined by the item separator ", ".
RECURSIVE json_dumps_items(_, _, _)
json_dumps_items(h, lo, hi) ==
    IF lo > hi THEN <<>>
    ELSE IF lo = hi THEN json_dumps_str(h[lo])
    ELSE LET mid == (lo + hi) \div 2
         IN  json_dumps_items(h, lo, mid) \o <<",", " ">>
                 \o json_dumps_items(h, mid + 1, hi)

\* json.dumps(list of str)
json_dumps_list(h) == <<"[">> \o json_dumps_items(h, 1, Len(h)) \o <<"]">>

\* json.dumps({})
json_dumps_facts(f) == <<"{", "}">>

\* The decoder's state while it scans the text of a list of strings.
ScanStart == [mode |-> "value", items |-> <<>>, cur |-> <<>>, hex |-> <<>>, high |-> <<>>]

\* The character(s) a completed \uXXXX escape adds, given a pending high surrogate.
json_unescape(st, hex) ==
    IF hex = <<"d", "8", "3", "d">>
    THEN [st EXCEPT !.mode = "str", !.hex = <<>>, !.high = hex]
    ELSE IF hex = <<"d", "e", "0", "3">> /\ st.high = <<"d", "8", "3", "d">>
    THEN [st EXCEPT !.mode = "str", !.hex = <<>>, !.high = <<>>,
                    !.cur = Append(@, "U+1F603")]
    ELSE IF hex = <<"2", "0", "1", "9">>
    THEN [st EXCEPT !.mode = "str", !.hex = <<>>, !.cur = Append(@, "U+2019")]
    ELSE [st EXCEPT !.mode = "str", !.hex = <<>>, !.cur = Append(@, "U+FFFD")]

\* One character of the text consumed by the decoder.
json_step(st, c) ==
    CASE st.mode = "value" ->
            IF c = "\"" THEN [st EXCEPT !.mode = "str", !.cur = <<>>] ELSE st
      [] st.mode = "str" ->
            IF c = "\"" THEN [st EXCEPT !.mode = "value", !.items = Append(@, st.cur),
                                        !.cur = <<>>]
            ELSE IF c = "\\" THEN [st EXCEPT !.mode = "esc"]
            ELSE [st EXCEPT !.cur = Append(@, c)]
      [] st.mode = "esc" ->
            IF c = "u" THEN [st EXCEPT !.mode = "hex", !.hex = <<>>]
            ELSE [st EXCEPT !.mode = "str",
                            !.cur = Append(@, CASE c = "n" -> "\n"
                                                [] c = "r" -> "\r"
                                                [] c = "t" -> "\t"
                                                [] OTHER -> c)]
      [] st.mode = "hex" ->
            IF Len(st.hex) = 3 THEN json_unescape(st, Append(st.hex, c))
            ELSE [st EXCEPT !.hex = Append(@, c)]

\* The decoder run over t[lo..hi] from state st.
RECURSIVE json_scan(_, _, _, _)
json_scan(t, lo, hi, st) ==
    IF lo > hi THEN st
    ELSE IF lo = hi THEN json_step(st, t[lo])
    ELSE LET mid == (lo + hi) \div 2
             left == json_scan(t, lo, mid, st)
         IN  IF left.mode = "error" THEN left ELSE json_scan(t, mid + 1, hi, left)

\* json.loads(text of a list of str)
json_loads_list(t) == json_scan(t, 1, Len(t), ScanStart).items

\* json.loads(facts) if facts else {}: the only facts value is the empty object.
json_loads_facts(t) == <<>>

(***************************************************************************)
(* Completion client: fetch_ai_response.                                   *)
(***************************************************************************)
\* Values of a parsed JSON body.
JNull == [t |-> "null", v |-> <<>>]

JStr(s) == [t |-> "str", v |-> s]

JList(items) == [t |-> "list", v |-> items]

JObj(fields) == [t |-> "obj", v |-> fields]

\* The result of evaluating a Python expression: a value or a raised exception.
Ok(x) == [exc |-> "none", val |-> x]

Raise(e) == [exc |-> e, val |-> JNull]

\* x[name] for a str key.
py_getitem_key(x, name) ==
    IF x.t = "obj"
    THEN IF name \in DOMAIN x.v
         THEN Ok(x.v[name]) ELSE Raise("KeyError")
    ELSE Raise("TypeError")

\* x[0]
py_getitem_first(x) ==
    CASE x.t = "list" -> IF Len(x.v) > 0 THEN Ok(x.v[1]) ELSE Raise("IndexError")
      [] x.t = "str" -> IF Len(x.v) > 0 THEN Ok(JStr(<<x.v[1]>>)) ELSE Raise("IndexError")
      [] x.t = "obj" -> Raise("KeyError")
      [] OTHER -> Raise("TypeError")

then_key(r, name) == IF r.exc # "none" THEN r ELSE py_getitem_key(r.val, name)

then_first(r) == IF r.exc # "none" THEN r ELSE py_getitem_first(r.val)

\* response_data["candidates"][0]["content"]["parts"][0]["text"]
extract_text(body) ==
    then_key(then_first(then_key(then_key(then_first(
        then_key(Ok(body), "candidates")), "content"), "parts")), "text")

ReplyOk == <<"o", "k">>

\* The response bodies the model draws from, by name.
BodyIds == {"well_formed", "no_candidates", "empty_candidates", "null_candidates"}

Body(id) ==
    CASE id = "well_formed" ->
            JObj([candidates |-> JList(<<
                JObj([content |-> JObj([parts |-> JList(<<
                    JObj([text |-> JStr(ReplyOk)]) >>)])]) >>)])
      [] id = "no_candidates" -> JObj([promptFeedback |-> JObj([blockReason |-> JStr(<<"S", "A", "F", "E", "T", "Y">>)])])
      [] id = "empty_candidates" -> JObj([candidates |-> JList(<<>>)])
      [] id = "null_candidates" -> JObj([candidates |-> JNull])

\* Outcomes of the HTTP POST of line 70.
Outcomes ==
    [kind : {"response"}, status : {200}, body : BodyIds]
    \cup {[kind |-> "response", status |-> 500, body |-> "error_text"],
          [kind |-> "ClientError", status |-> 0, body |-> "none"],
          [kind |-> "TimeoutError", status |-> 0, body |-> "none"]}

\* What fetch_ai_response returns or raises.
Returned(text) == [exc |-> "none", text |-> text]

Raised(e) == [exc |-> e, text |-> <<>>]

\* Lines 73-77: the try block around the extraction.
parse_response(body) ==
    LET r == extract_text(body)
    IN  CASE r.exc = "none" -> Returned(r.val.v)
          [] r.exc \in {"KeyError", "IndexError"} -> Returned(FALLBACK_FORMAT)
          [] OTHER -> Raised(r.exc)

\* Lines 69-80: the outcome of the POST turned into fetch_ai_response's result.
fetch_result(outcome) ==
    IF outcome.kind # "response" THEN Raised(outcome.kind)
    ELSE IF outcome.status = 200 THEN parse_response(Body(outcome.body))
    ELSE Returned(FALLBACK_ERROR)

\* Lines 62-65: the turn sequence sent to the endpoint.
build_dialogue(user_name, user_prompt, context_data) ==
    LET ctx == LastN(context_data, HistoryCap)
    IN  [i \in 1..Len(ctx) |->
            [role |-> IF (i - 1) % 2 = 0 THEN "user" ELSE "model", text |-> ctx[i]]]
        \o <<[role |-> "user", text |-> user_name \o <<":", " ">> \o user_prompt]>>

(***************************************************************************)
(* Session store: the table "memory" and the cache USER_MEMORY.            *)
(***************************************************************************)
Users == {1, 2}

first_name(u) == IF u = 1 THEN <<"A", "l">> ELSE <<"B", "o">>

\* Line 94: the session of a previously unseen user.
NewSession == [history |-> <<>>, facts |-> <<>>, pending_thought |-> None]

\* Lines 53-55: the row save_memory writes for a session.
row_of(mem) ==
    [history |-> json_dumps_list(mem.history),
     facts |-> json_dumps_facts(mem.facts),
     pending_thought |-> mem.pending_thought]

\* Lines 44-48: the session load_memory builds from a row.
session_of(row) ==
    [history |-> json_loads_list(row.history),
     facts |-> IF row.facts # <<>> THEN json_loads_facts(row.facts) ELSE <<>>,
     pending_thought |-> row.pending_thought]

\* save_memory, were the row of every cached session written.
save_memory_every_row(table, memory, user_id) ==
    [u \in DOMAIN table \cup DOMAIN memory |->
        IF u \in DOMAIN memory THEN row_of(memory[u]) ELSE table[u]]

\* Lines 56-58: REPLACE INTO memory, keyed by user_id.
save_memory(table, memory, user_id) ==
    [u \in DOMAIN table \cup {user_id} |->
        IF u = user_id THEN row_of(memory[user_id]) ELSE table[u]]

\* Lines 42-48: the cache rebuilt from every row of the table.
load_memory(table) == [u \in DOMAIN table |-> session_of(table[u])]

(***************************************************************************)
(* Conversation handler: chat.                                             *)
(***************************************************************************)
\* Line 100 / line 104: the entry appended to history for the inbound message.
history_entry(pending_thought, user_message) ==
    IF Truthy(pending_thought)
    THEN pending_thought.s \o <<" ">> \o user_message
    ELSE user_message

\* merge_pending, were the pending thought left in place after the merge.
merge_pending_not_cleared(mem, user_message) ==
    [history |-> Append(mem.history, history_entry(mem.pending_thought, user_message)),
     facts |-> mem.facts,
     pending_thought |-> mem.pending_thought]

\* merge_pending, were the raw message appended after the merged entry as well.
merge_pending_and_raw(mem, user_message) ==
    [history |-> IF Truthy(mem.pending_thought)
                 THEN mem.history \o <<history_entry(mem.pending_thought, user_message),
                                       user_message>>
                 ELSE Append(mem.history, user_message),
     facts |-> mem.facts,
     pending_thought |-> IF Truthy(mem.pending_thought) THEN None
                         ELSE mem.pending_thought]

\* Lines 99-104: the pending-thought branch, on the session.
merge_pending(mem, user_message) ==
    [history |-> Append(mem.history, history_entry(mem.pending_thought, user_message)),
     facts |-> mem.facts,
     pending_thought |-> IF Truthy(mem.pending_thought) THEN None
                         ELSE mem.pending_thought]

\* truncate, were the first 50 entries kept instead of the last.
truncate_keeps_oldest(history) ==
    IF Len(history) <= HistoryCap THEN history ELSE SubSeq(history, 1, HistoryCap)

\* Line 106
truncate(history) == LastN(history, HistoryCap)

\* deferred_thought, were the merged entry kept as the pending thought.
deferred_thought_entry(user_message, entry) == entry

\* Line 110: the text kept as the pending thought.
deferred_thought(user_message, entry) == user_message

\* checked_text, were the merged entry tested instead of the message.
checked_text_entry(user_message, entry) == entry

\* Line 109: the text the test for an unfinished equation is run on.
checked_text(user_message, entry) == user_message

\* looks_unfinished, were the test for an operator character left out.
looks_unfinished_letters_only(user_message) == HasAlpha(user_message)

\* Line 109: the test for an unfinished equation.
looks_unfinished(user_message) == HasOperator(user_message) /\ HasAlpha(user_message)

\* prompt_of, were the merged entry handed on instead of the message.
prompt_of_entry(user_message, entry) == entry

\* Line 115: the prompt handed to fetch_ai_response.
prompt_of(user_message, entry) == user_message

\* Line 115: the list handed to fetch_ai_response as context_data, read back
\* from the request built from it.
context_data(request) == [i \in 1..(Len(request) - 1) |-> request[i].text]

\* resumed_history, were the list the invocation held at the await used.
resumed_history_held(current, held) == held

\* Line 116: after the await, user_memory["history"] is looked up again in the
\* session dict, which every invocation of the user shares.
resumed_history(current, held) == current

\* append_reply, were the reply to take the place of the last entry.
append_reply_over_last(history, ai_reply) ==
    SubSeq(history, 1, Len(history) - 1) \o <<BOT_PREFIX \o ai_reply>>

\* Line 116: the history after the reply was appended.
append_reply(history, ai_reply) == Append(history, BOT_PREFIX \o ai_reply)

\* The texts a message may carry (update.message.text).
Texts ==
    {<<"H", "i">>,
     <<"2", " ", "+", " ", "x">>,
     <<" ", "s", "a", "y", " ", "\"", "7", "\"", " ">>,
     <<"1", "/", "2">>}

Slots == {1, 2}

NoOutcome == [kind |-> "none", status |-> 0, body |-> "none"]

NoResult == [exc |-> "unset", text |-> <<>>]

\* What is recorded of a handler invocation.
IdleSlot ==
    [user |-> 0, text |-> <<>>, msg |-> <<>>, pending0 |-> None, hlen0 |-> 0, new_user |-> FALSE,
     request |-> <<>>, posts |-> 0, outcome |-> NoOutcome, result |-> NoResult,
     replies |-> <<>>]

VARIABLES
    cache,       \* USER_MEMORY
    db,          \* the rows of table memory, by user_id
    pc,          \* where each handler invocation stands
    slot,        \* what each handler invocation has done
    delivered,   \* messages delivered so far
    concurrent,  \* whether the transport dispatches updates concurrently
    last_message, \* per user, the text of the latest message the handler received
    appended,    \* per cached user, the loaded history and every entry appended since
    unhandled    \* whether an exception has left a handler since the process started

vars == <<cache, db, pc, slot, delivered, concurrent, last_message, appended, unhandled>>

InProgress(s) == pc[s] \in {"post", "reply_prompt", "reply_ai"}

Quiescent == \A s \in Slots : ~InProgress(s)

\* The transport hands an update to the handler: one at a time unless concurrent.
CanDispatch(s) ==
    /\ ~InProgress(s)
    /\ \A t \in Slots : t < s => InProgress(t)
    /\ concurrent \/ Quiescent

\* A history 24 exchanges long, as the handler leaves it.
WarmHistory ==
    [i \in 1..(2 * InitExchanges) |->
        IF i % 2 = 1 THEN <<"H", "i">> ELSE BOT_PREFIX \o ReplyOk]

WarmSession == [history |-> WarmHistory, facts |-> <<>>, pending_thought |-> None]

\* The latest message of the user of WarmSession.
WarmLastMessage == Some(<<"H", "i">>)

InitTables == {<<>>, (1 :> row_of(WarmSession))}

\* Lines 25-49: the table as found at start-up, and the cache loaded from it.
Init ==
    /\ db \in InitTables
    /\ cache = load_memory(db)
    /\ pc = [s \in Slots |-> "idle"]
    /\ slot = [s \in Slots |-> IdleSlot]
    /\ delivered = 0
    /\ concurrent = FALSE
    /\ last_message = [u \in Users |-> IF u \in DOMAIN db THEN WarmLastMessage ELSE None]
    /\ appended = [u \in DOMAIN cache |-> cache[u].history]
    /\ unhandled = FALSE

\* Lines 84-115: the handler up to its first suspension point.
chat_start(s, u, raw) ==
    /\ delivered < MaxMessages
    /\ CanDispatch(s)
    /\ delivered' = delivered + 1
    /\ UNCHANGED <<concurrent, unhandled>>
    /\ LET user_message == strip(raw)
           memory0 == IF u \in DOMAIN cache THEN cache ELSE cache @@ (u :> NewSession)
           pending0 == memory0[u].pending_thought
           entry == history_entry(pending0, user_message)
           memory1 == [memory0 EXCEPT ![u] = merge_pending(@, user_message)]
           table1 == IF Truthy(pending0) THEN save_memory(db, memory1, u) ELSE db
           memory2 == [memory1 EXCEPT ![u].history = truncate(@)]
           memory3 == [memory2 EXCEPT ![u].pending_thought =
                                         Some(deferred_thought(user_message, entry))]
           started == [IdleSlot EXCEPT !.user = u, !.text = raw, !.msg = user_message,
                                       !.pending0 = pending0,
                                       !.hlen0 = Len(memory0[u].history),
                                       !.new_user = (u \notin DOMAIN cache)]
       IN  /\ last_message' = [last_message EXCEPT ![u] = Some(user_message)]
           /\ appended' = [v \in DOMAIN memory0 |->
                              IF v = u
                              THEN (IF u \in DOMAIN appended THEN appended[u] ELSE <<>>)
                                       \o <<entry>>
                              ELSE appended[v]]
           /\ IF looks_unfinished(checked_text(user_message, entry))
              THEN /\ cache' = memory3
                   /\ db' = save_memory(table1, memory3, u)
                   /\ pc' = [pc EXCEPT ![s] = "reply_prompt"]
                   /\ slot' = [slot EXCEPT ![s] = started]
              ELSE /\ cache' = memory2
                   /\ db' = table1
                   /\ pc' = [pc EXCEPT ![s] = "post"]
                   /\ slot' = [slot EXCEPT ![s] =
                          [started EXCEPT !.posts = 1,
                              !.request = build_dialogue(first_name(u),
                                              prompt_of(user_message, entry),
                                              memory2[u].history)]]

\* Lines 112-113: the follow-up prompt is sent and the handler returns.
reply_prompt(s) ==
    /\ pc[s] = "reply_prompt"
    /\ slot' = [slot EXCEPT ![s].replies = Append(@, FOLLOW_UP_PROMPT)]
    /\ pc' = [pc EXCEPT ![s] = "returned"]
    /\ UNCHANGED <<cache, db, delivered, concurrent, last_message, appended, unhandled>>

\* Lines 69-80 and 115-117: the POST completes; the reply is recorded and saved,
\* or the exception leaves the handler.
http_response(s, outcome) ==
    /\ pc[s] = "post"
    /\ LET u == slot[s].user
           r == fetch_result(outcome)
           memory1 == [cache EXCEPT ![u].history =
                          append_reply(resumed_history(@, context_data(slot[s].request)), r.text)]
       IN  IF r.exc # "none"
           THEN /\ pc' = [pc EXCEPT ![s] = "raised"]
                /\ slot' = [slot EXCEPT ![s].outcome = outcome, ![s].result = r]
                /\ unhandled' = TRUE
                /\ UNCHANGED <<cache, db, appended>>
           ELSE /\ pc' = [pc EXCEPT ![s] = "reply_ai"]
                /\ slot' = [slot EXCEPT ![s].outcome = outcome, ![s].result = r]
                /\ cache' = memory1
                /\ db' = save_memory(db, memory1, u)
                /\ appended' = [appended EXCEPT ![u] = Append(@, BOT_PREFIX \o r.text)]
                /\ UNCHANGED unhandled
    /\ UNCHANGED <<delivered, concurrent, last_message>>

\* Line 119: the reply is sent and the handler returns.
reply_ai(s) ==
    /\ pc[s] = "reply_ai"
    /\ slot' = [slot EXCEPT ![s].replies = Append(@, slot[s].result.text)]
    /\ pc' = [pc EXCEPT ![s] = "returned"]
    /\ UNCHANGED <<cache, db, delivered, concurrent, last_message, appended, unhandled>>

\* Lines 37-49: the process is started again and load_memory rebuilds the cache.
restart ==
    /\ Quiescent
    /\ cache' = load_memory(db)
    /\ pc' = [s \in Slots |-> "idle"]
    /\ slot' = [s \in Slots |-> IdleSlot]
    /\ appended' = [u \in DOMAIN cache' |-> cache'[u].history]
    /\ unhandled' = FALSE
    /\ UNCHANGED <<db, delivered, concurrent, last_message>>

Next ==
    \/ \E s \in Slots, u \in Users, raw \in Texts : chat_start(s, u, raw)
    \/ \E s \in Slots : reply_prompt(s)
    \/ \E s \in Slots, outcome \in Outcomes : http_response(s, outcome)
    \/ \E s \in Slots : reply_ai(s)
    \/ restart

Spec == Init /\ [][Next]_vars

\* The same program under a transport that dispatches updates concurrently: a
\* handler may start while another is suspended at an await.
InitConcurrent ==
    /\ db \in InitTables
    /\ cache = load_memory(db)
    /\ pc = [s \in Slots |-> "idle"]
    /\ slot = [s \in Slots |-> IdleSlot]
    /\ delivered = 0
    /\ concurrent = TRUE
    /\ last_message = [u \in Users |-> IF u \in DOMAIN db THEN WarmLastMessage ELSE None]
    /\ appended = [u \in DOMAIN cache |-> cache[u].history]
    /\ unhandled = FALSE

SpecConcurrent == InitConcurrent /\ [][Next]_vars

(***************************************************************************)
(* Properties.  In each, M is user_message, the text of the message as    *)
(* the handler reads it at line 89, and an invocation is Ended once it    *)
(* has returned or raised.                                                 *)
(***************************************************************************)
Ended(s) == pc[s] \in {"returned", "raised"}

Started(s) == pc[s] # "idle"

Merged(s) == slot[s].pending0.s \o <<" ">> \o slot[s].msg

Min(a, b) == IF a <= b THEN a ELSE b

\* C1 (as stated): between handler invocations every cached history has at most
\* 50 entries, the appended bot reply included.
C1_HistoryAtMostCap ==
    Quiescent => \A u \in DOMAIN cache : Len(cache[u].history) <= HistoryCap

\* C2 (as stated): a POST that ends in a transport error, a timeout or a non-200
\* status makes fetch_ai_response return the fallback string, never raise.
C2_FailedCallYieldsFallback ==
    \A s \in Slots :
        (\/ slot[s].outcome.kind \in {"ClientError", "TimeoutError"}
         \/ slot[s].outcome.kind = "response" /\ slot[s].outcome.status # 200)
        => slot[s].result = Returned(FALLBACK_ERROR)

\* C3 (as stated): when a message arrives for a user with a pending thought, the
\* pending thought is empty once that invocation has ended, whatever the message.
C3_PendingEmptyAfterNext ==
    \A s \in Slots :
        Ended(s) /\ Truthy(slot[s].pending0)
        => cache[slot[s].user].pending_thought = None

\* C3 (amended): when a message M arrives for a user with a pending thought P,
\* then once that invocation has ended the pending thought is empty, unless M
\* itself holds an operator character and a letter: then it is M, not P.
C3_PendingAfterNextMessage ==
    \A s \in Slots :
        Ended(s) /\ Truthy(slot[s].pending0)
        => cache[slot[s].user].pending_thought =
              IF HasOperator(slot[s].msg) /\ HasAlpha(slot[s].msg)
              THEN Some(slot[s].msg) ELSE None

C3_Witness ==
    \E s \in Slots :
        /\ pc[s] = "returned"
        /\ Truthy(slot[s].pending0)
        /\ slot[s].posts = 1
        /\ cache[slot[s].user].pending_thought = None

\* C4 (as stated): with a pending thought P outstanding, the combined text
\* P + " " + M is what the heuristic is evaluated on and, when the check fails,
\* the new user message of the completion request.
C4_CombinedTextFeedsCheckAndPrompt ==
    \A s \in Slots :
        Started(s) /\ Truthy(slot[s].pending0)
        => /\ (slot[s].posts = 0) <=> (HasOperator(Merged(s)) /\ HasAlpha(Merged(s)))
           /\ slot[s].posts = 1
              => slot[s].request[Len(slot[s].request)].text =
                    first_name(slot[s].user) \o <<":", " ">> \o Merged(s)

\* C4 (amended): with a pending thought P outstanding, the heuristic is evaluated
\* on M alone; when the check fails, M alone is the new user message of the
\* completion request (its final user turn), and the combined text P + " " + M
\* is handed over as the last entry of the context, the turn before it.
C4_MessageFeedsCheckAndPrompt ==
    \A s \in Slots :
        Started(s) /\ Truthy(slot[s].pending0)
        => /\ (slot[s].posts = 0) <=> (HasOperator(slot[s].msg) /\ HasAlpha(slot[s].msg))
           /\ slot[s].posts = 1
              => LET n == Len(slot[s].request)
                 IN  /\ n >= 2
                     /\ slot[s].request[n] =
                           [role |-> "user",
                            text |-> first_name(slot[s].user) \o <<":", " ">> \o slot[s].msg]
                     /\ slot[s].request[n - 1].text = Merged(s)

C4_Witness ==
    \E s \in Slots :
        /\ Truthy(slot[s].pending0)
        /\ slot[s].posts = 1
        /\ slot[s].request[Len(slot[s].request) - 1].text = Merged(s)

\* C5 (as stated): a completion request carries the new message in its final user
\* turn only, after the turns of the history as it was before the message; for a
\* user never seen before the request holds exactly one user turn.
C5_NewMessageInOneTurn ==
    \A s \in Slots :
        slot[s].posts = 1
        => /\ Len(slot[s].request) = Min(slot[s].hlen0, HistoryCap) + 1
           /\ slot[s].new_user
              => Cardinality({i \in 1..Len(slot[s].request) :
                                  slot[s].request[i].role = "user"}) = 1

\* C6 (as stated): whenever no invocation is in progress, every cached session
\* has a row, and load_memory would rebuild exactly that session from it.
C6_PersistedEqualsCache ==
    Quiescent
    => \A u \in DOMAIN cache : u \in DOMAIN db /\ session_of(db[u]) = cache[u]

\* C7 (as stated): an invocation never ends by raising, and when it has ended it
\* has sent exactly one reply.
C7_ExactlyOneReply ==
    \A s \in Slots :
        Ended(s) => pc[s] = "returned" /\ Len(slot[s].replies) = 1

\* C8: an invocation whose message holds an operator character and a letter issues
\* no completion request; while it waits to send its reply the pending thought is
\* already set in the cache and in the row, and the one reply it sends is the fixed
\* follow-up prompt.  A message with no operator character leaves no pending
\* thought.
C8_HeuristicShortCircuits ==
    \A s \in Slots :
        Started(s)
        => LET u == slot[s].user
           IN  /\ (HasOperator(slot[s].text) /\ HasAlpha(slot[s].text))
                  => /\ slot[s].posts = 0
                     /\ slot[s].request = <<>>
                     /\ pc[s] \in {"reply_prompt", "returned"}
                     /\ pc[s] = "reply_prompt"
                        => /\ slot[s].replies = <<>>
                           /\ Truthy(cache[u].pending_thought)
                           /\ cache[u].pending_thought = Some(slot[s].msg)
                           /\ u \in DOMAIN db
                           /\ db[u].pending_thought = Some(slot[s].msg)
                     /\ pc[s] = "returned"
                        => slot[s].replies = <<FOLLOW_UP_PROMPT>>
               /\ ~HasOperator(slot[s].text)
                  => /\ cache[u].pending_thought = None
                     /\ u \in DOMAIN db => db[u].pending_thought = None

C8_Witness ==
    \E s \in Slots :
        /\ pc[s] = "returned"
        /\ HasOperator(slot[s].text) /\ HasAlpha(slot[s].text)
        /\ slot[s].replies = <<FOLLOW_UP_PROMPT>>
        /\ db[slot[s].user].pending_thought = Some(slot[s].msg)

\* C9: the step that takes in a message M for a user with pending thought P
\* appends exactly one entry, P + " " + M, to that user's history (then cut to
\* its last 50); the rest of the invocation appends nothing but the bot reply.
C9_MergedEntryOnce ==
    [][\A s \in Slots :
          LET u == slot'[s].user
          IN  /\ (~InProgress(s) /\ pc'[s] \in {"post", "reply_prompt"}
                  /\ u \in DOMAIN cache /\ Truthy(cache[u].pending_thought))
                 => cache'[u].history =
                       LastN(Append(cache[u].history,
                                    cache[u].pending_thought.s \o <<" ">> \o slot'[s].msg),
                             HistoryCap)
              /\ (pc[s] = "post" /\ pc'[s] = "reply_ai")
                 => cache'[u].history =
                       Append(cache[u].history, BOT_PREFIX \o slot'[s].result.text)
              /\ (pc[s] = "post" /\ pc'[s] = "raised") \/ pc[s] \in {"reply_prompt", "reply_ai"}
                 => cache'[u].history = cache[u].history
      ]_vars

C9_Witness ==
    \E s \in Slots :
        /\ pc[s] = "post"
        /\ Truthy(slot[s].pending0)
        /\ LET h == cache[slot[s].user].history
           IN  /\ Len(h) = Min(slot[s].hlen0 + 1, HistoryCap)
               /\ h[Len(h)] = Merged(s)

\* C10 (as stated): on a 200 response whose body lacks the path
\* candidates[0].content.parts[0].text, fetch_ai_response returns the fixed
\* format fallback and does not raise.
C10_AbsentPathYieldsFormatFallback ==
    \A s \in Slots :
        (/\ slot[s].outcome.kind = "response"
         /\ slot[s].outcome.status = 200
         /\ extract_text(Body(slot[s].outcome.body)).exc # "none")
        => slot[s].result = Returned(FALLBACK_FORMAT)

\* Whether a history entry is a bot reply: whether it starts with "Bot: ".
IsABotReply(e) == Len(e) >= Len(BOT_PREFIX) /\ SubSeq(e, 1, Len(BOT_PREFIX)) = BOT_PREFIX

\* The entry appended to history for the message of invocation s.
Entry(s) == history_entry(slot[s].pending0, slot[s].msg)

\* C11: for every cached session, the row save_memory writes for it, read back
\* by load_memory from a table holding that row, is the same session: the same
\* history entries in the same order, the same facts, the same pending thought.
C11_SaveLoadRoundTrip ==
    \A u \in DOMAIN cache :
        load_memory(save_memory(<<>>, cache, u)) = (u :> cache[u])

C11_Witness ==
    \E u \in DOMAIN cache :
        /\ u \in DOMAIN db
        /\ db[u] = row_of(cache[u])
        /\ Truthy(cache[u].pending_thought)
        /\ \E i \in 1..Len(cache[u].history) :
              /\ cache[u].history[i] = <<"s", "a", "y", " ", "\"", "7", "\"">>
              /\ i < Len(cache[u].history)
              /\ cache[u].history[i + 1] = BOT_PREFIX \o FALLBACK_FORMAT

\* C12: once a normal-path invocation has got its completion result r, the last
\* two entries of the user's history are the entry of its message and
\* "Bot: " + r, the row holds exactly the cached history, and for a user never
\* seen before the history is exactly those two entries.
C12_EntryThenBotReply ==
    \A s \in Slots :
        pc[s] \in {"reply_ai", "returned"} /\ slot[s].posts = 1
        => LET u == slot[s].user
               h == cache[u].history
               n == Len(h)
           IN  /\ n >= 2
               /\ h[n - 1] = Entry(s)
               /\ h[n] = BOT_PREFIX \o slot[s].result.text
               /\ u \in DOMAIN db
               /\ json_loads_list(db[u].history) = h
               /\ slot[s].new_user => h = <<Entry(s), BOT_PREFIX \o slot[s].result.text>>

C12_Witness ==
    \E s \in Slots :
        /\ pc[s] = "returned"
        /\ slot[s].posts = 1
        /\ slot[s].new_user
        /\ slot[s].replies = <<slot[s].result.text>>
        /\ json_loads_list(db[slot[s].user].history) =
              <<slot[s].msg, BOT_PREFIX \o slot[s].result.text>>

\* How often v occurs in h.
Count(h, v) == Cardinality({i \in 1..Len(h) : h[i] = v})

\* The invocations on record that have returned, for user u.
ReturnedFor(u) == {s \in Slots : pc[s] = "returned" /\ slot[s].user = u}

\* How many of the entries and bot replies of those invocations equal v.
Owed(u, v) ==
    Cardinality({s \in ReturnedFor(u) : Entry(s) = v})
    + Cardinality({s \in ReturnedFor(u) :
                      slot[s].posts = 1 /\ BOT_PREFIX \o slot[s].result.text = v})

\* C13: under concurrent dispatch, once the invocations on record have all
\* returned and no handler of the process was left by an exception, each one's
\* message entry and each one's bot reply is in its user's cached history (as
\* many times as there are invocations that added it), and the row of each of
\* their users equals the cached session: no update is lost, for the same user
\* and for different users.
C13_NoLostUpdates ==
    (~unhandled /\ \A s \in Slots : pc[s] \in {"idle", "returned"})
    => \A u \in Users :
          ReturnedFor(u) # {}
          => /\ \A s \in ReturnedFor(u) :
                   /\ Count(cache[u].history, Entry(s)) >= Owed(u, Entry(s))
                   /\ slot[s].posts = 1
                      => Count(cache[u].history, BOT_PREFIX \o slot[s].result.text)
                            >= Owed(u, BOT_PREFIX \o slot[s].result.text)
             /\ u \in DOMAIN db
             /\ session_of(db[u]) = cache[u]

\* Two invocations of one user that overlapped at the completion call: both
\* messages were taken in before either reply.
C13_Witness ==
    /\ concurrent
    /\ \A s \in Slots : pc[s] = "returned" /\ slot[s].posts = 1 /\ slot[s].user = 1
    /\ LET h == cache[1].history
           n == Len(h)
       IN  /\ n >= 4
           /\ h[n - 3] = Entry(1)
           /\ h[n - 2] = Entry(2)
           /\ IsABotReply(h[n - 1])
           /\ IsABotReply(h[n])

\* C14: between handler invocations, each user's pending thought is empty or is
\* the latest message received from that user, which then holds an operator
\* character and a letter; being one optional text per session, at most one is
\* outstanding per user.  The row holds the same pending thought.
C14_PendingIsLatestMessage ==
    Quiescent
    => \A u \in DOMAIN cache :
          LET p == cache[u].pending_thought
          IN  /\ p = None
                 \/ /\ Truthy(p)
                    /\ p = last_message[u]
                    /\ HasOperator(p.s) /\ HasAlpha(p.s)
              /\ u \in DOMAIN db => db[u].pending_thought = p

C14_Witness ==
    /\ Quiescent
    /\ \E u \in DOMAIN cache :
          /\ Truthy(cache[u].pending_thought)
          /\ cache[u].pending_thought = last_message[u]
          /\ Len(cache[u].history) >= 2
          /\ cache[u].history[Len(cache[u].history)] =
                cache[u].history[Len(cache[u].history) - 1] \o <<" ">> \o last_message[u].s

\* Whether h is a contiguous suffix of full.
IsSuffix(h, full) ==
    /\ Len(h) <= Len(full)
    /\ h = SubSeq(full, Len(full) - Len(h) + 1, Len(full))

Acts(s) == pc'[s] # pc[s] /\ pc'[s] # "idle"

\* C16: a step of the handler for user u leaves the cached session and the row
\* of every other user as they were and creates neither for any other user; the
\* session of a user never seen before starts from an empty history, empty facts
\* and no pending thought, and has no row until the first save_memory.
C16_OtherUsersUntouched ==
    [][\A s \in Slots :
          Acts(s)
          => LET u == slot'[s].user
             IN  /\ \A v \in Users \ {u} :
                       /\ v \in DOMAIN cache' <=> v \in DOMAIN cache
                       /\ v \in DOMAIN cache => cache'[v] = cache[v]
                       /\ v \in DOMAIN db' <=> v \in DOMAIN db
                       /\ v \in DOMAIN db => db'[v] = db[v]
                 /\ (u \notin DOMAIN cache)
                    => /\ cache'[u].history = <<slot'[s].msg>>
                       /\ cache'[u].facts = <<>>
                       /\ cache'[u].pending_thought \in {None, Some(slot'[s].msg)}
                       /\ pc'[s] = "post" => u \notin DOMAIN db'
                       /\ pc'[s] = "reply_prompt"
                          => u \in DOMAIN db' /\ db'[u] = row_of(cache'[u])
      ]_vars

C16_Witness ==
    \E s \in Slots :
        /\ pc[s] = "post"
        /\ slot[s].new_user
        /\ slot[s].user \notin DOMAIN db
        /\ \E v \in DOMAIN cache \ DOMAIN db :
              v # slot[s].user /\ Len(cache[v].history) = 1

\* C17 (as stated): in every completion request, each turn of the history that
\* is a bot reply is tagged model and each that is a user utterance is tagged
\* user.
C17_RolesMatchEntries ==
    \A s \in Slots :
        slot[s].posts = 1
        => \A i \in 1..(Len(slot[s].request) - 1) :
              slot[s].request[i].role =
                  IF IsABotReply(slot[s].request[i].text) THEN "model" ELSE "user"

\* C18 (as stated): an invocation for a user without a pending thought whose
\* message triggers the heuristic leaves the history as it was.
C18_DeferredMessageNotInHistory ==
    \A s \in Slots :
        (/\ Started(s)
         /\ ~Truthy(slot[s].pending0)
         /\ HasOperator(slot[s].msg) /\ HasAlpha(slot[s].msg))
        => Len(cache[slot[s].user].history) = slot[s].hlen0

\* C19: when a pending thought is outstanding and the next message of that user
\* lacks an operator character or lacks a letter, the invocation takes the normal
\* path, issuing exactly one completion request, and from then on, also once it
\* has returned, the session has no pending thought, in the cache and in the row.
C19_FollowUpReturnsToIdle ==
    \A s \in Slots :
        (/\ Started(s)
         /\ Truthy(slot[s].pending0)
         /\ ~(HasOperator(slot[s].text) /\ HasAlpha(slot[s].text)))
        => /\ slot[s].posts = 1
           /\ Len(slot[s].request) >= 1
           /\ pc[s] \notin {"reply_prompt"}
           /\ cache[slot[s].user].pending_thought = None
           /\ slot[s].user \in DOMAIN db
           /\ db[slot[s].user].pending_thought = None
           /\ pc[s] = "returned" => slot[s].replies = <<slot[s].result.text>>

C19_Witness ==
    \E s \in Slots :
        /\ pc[s] = "returned"
        /\ Truthy(slot[s].pending0)
        /\ HasOperator(slot[s].text) /\ ~HasAlpha(slot[s].text)
        /\ slot[s].posts = 1
        /\ cache[slot[s].user].pending_thought = None

=============================================================================
